---- MODULE Spec2Model ----
(***************************************************************************)
(* Model of the Stock Market Risk & Return Analyzer:                       *)
(*   src/analysis.py  PortfolioAnalyzer, identify_high_correlation_pairs,  *)
(*                    calculate_portfolio_metrics                          *)
(*   src/utils.py     fetch_stock_data, validate_tickers                   *)
(*   src/app.py       main                                                 *)
(*                                                                         *)
(* Floating-point cells are modelled as exact numbers with the IEEE        *)
(* special values: a value is a record [k, n, d] where                     *)
(*   k = "num"  : the rational n/d in lowest terms, d > 0                  *)
(*   k = "root" : sign(n) * sqrt(|n|/d), |n|/d in lowest terms and not the *)
(*                square of a rational (the result of a square root)       *)
(*   k = "inf"  : +infinity (n = 1) or -infinity (n = -1)                  *)
(*   k = "nan"  : NaN                                                      *)
(* Rounding error of binary floating point is not modelled.                *)
(***************************************************************************)
EXTENDS Integers, Sequences, FiniteSets, TLC

----------------------------------------------------------------------------
(* Bounds of the model *)

MaxRows == 3
MaxCorrAssets == 3
MaxPfAssets == 2
MaxInputLen == 3
MaxDates == 2

----------------------------------------------------------------------------
(* Exact arithmetic with NaN and infinities *)

Abs(i) == IF i < 0 THEN -i ELSE i

Sgn(i) == IF i < 0 THEN -1 ELSE IF i > 0 THEN 1 ELSE 0

RECURSIVE Gcd(_, _)
Gcd(a, b) == IF b = 0 THEN a ELSE Gcd(b, a % b)

\* the largest r in lo..hi with r * r <= i, by bisection (lo * lo <= i)
RECURSIVE ISqrtIn(_, _, _)
ISqrtIn(i, lo, hi) ==
    IF lo >= hi THEN lo
    ELSE LET mid == (lo + hi + 1) \div 2
         IN  IF mid * mid <= i THEN ISqrtIn(i, mid, hi) ELSE ISqrtIn(i, lo, mid - 1)

\* the largest r with r * r <= i
ISqrt(i) == ISqrtIn(i, 0, IF i < 46340 THEN i ELSE 46340)

IsSquare(i) == ISqrt(i) * ISqrt(i) = i

NaN == [k |-> "nan", n |-> 0, d |-> 1]
PInf == [k |-> "inf", n |-> 1, d |-> 1]
NInf == [k |-> "inf", n |-> -1, d |-> 1]

\* the rational a/b, b # 0, in lowest terms
Q(a, b) ==
    LET g == Gcd(Abs(a), Abs(b))
    IN  [k |-> "num", n |-> Sgn(b) * (a \div g), d |-> Abs(b) \div g]

Zero == Q(0, 1)
One == Q(1, 1)

IsNaN(x) == x.k = "nan"
IsInf(x) == x.k = "inf"
IsFinite(x) == x.k \in {"num", "root"}

FSign(x) == Sgn(x.n)

\* the square of a finite value, as a pair <<numerator, denominator>>
SqOf(x) == IF x.k = "root" THEN <<Abs(x.n), x.d>> ELSE <<x.n * x.n, x.d * x.d>>

\* the finite value sg * sqrt(a/b), a >= 0, b > 0
FromSq(sg, a, b) ==
    LET g == Gcd(a, b)
        p == a \div g
        q == b \div g
    IN  IF sg = 0 \/ a = 0 THEN Zero
        ELSE IF IsSquare(p) /\ IsSquare(q) THEN Q(sg * ISqrt(p), ISqrt(q))
        ELSE [k |-> "root", n |-> sg * p, d |-> q]

\* sg * sqrt((a/b) * (c/e)), cancelling common factors before multiplying
MulSq(sg, a, b, c, e) ==
    LET g1 == Gcd(a, e)
        g2 == Gcd(c, b)
    IN  IF a = 0 \/ c = 0 THEN Zero
        ELSE FromSq(sg, (a \div g1) * (c \div g2), (b \div g2) * (e \div g1))

\* the rational (a/b) * (c/e), cancelling common factors before multiplying
MulQ(a, b, c, e) ==
    LET g1 == Gcd(Abs(a), e)
        g2 == Gcd(Abs(c), b)
    IN  IF a = 0 \/ c = 0 THEN Zero
        ELSE [k |-> "num", n |-> (a \div g1) * (c \div g2), d |-> (b \div g2) * (e \div g1)]

FNeg(x) == [x EXCEPT !.n = -x.n]

FAbs(x) == [x EXCEPT !.n = Abs(x.n)]

\* x + y (finite operands are rationals: the code adds before it takes roots)
FAdd(x, y) ==
    IF IsNaN(x) \/ IsNaN(y) THEN NaN
    ELSE IF IsInf(x) /\ IsInf(y) THEN (IF x.n = y.n THEN x ELSE NaN)
    ELSE IF IsInf(x) THEN x
    ELSE IF IsInf(y) THEN y
    ELSE LET g == Gcd(x.d, y.d)
         IN  Q(x.n * (y.d \div g) + y.n * (x.d \div g), (x.d \div g) * y.d)

FSub(x, y) == FAdd(x, FNeg(y))

FMul(x, y) ==
    IF IsNaN(x) \/ IsNaN(y) THEN NaN
    ELSE IF IsInf(x) \/ IsInf(y)
         THEN (IF FSign(x) * FSign(y) = 0 THEN NaN
               ELSE IF FSign(x) * FSign(y) > 0 THEN PInf ELSE NInf)
    ELSE IF x.k = "num" /\ y.k = "num" THEN MulQ(x.n, x.d, y.n, y.d)
    ELSE MulSq(FSign(x) * FSign(y), SqOf(x)[1], SqOf(x)[2], SqOf(y)[1], SqOf(y)[2])

\* numpy float division: a zero divisor gives inf or NaN, it does not raise
FDiv(x, y) ==
    IF IsNaN(x) \/ IsNaN(y) THEN NaN
    ELSE IF IsInf(x) /\ IsInf(y) THEN NaN
    ELSE IF IsInf(x) THEN (IF FSign(y) < 0 THEN FNeg(x) ELSE x)
    ELSE IF IsInf(y) THEN Zero
    ELSE IF FSign(y) = 0
         THEN (IF FSign(x) = 0 THEN NaN ELSE IF FSign(x) > 0 THEN PInf ELSE NInf)
    ELSE IF x.k = "num" /\ y.k = "num" THEN MulQ(x.n, x.d, Sgn(y.n) * y.d, Abs(y.n))
    ELSE MulSq(FSign(x) * FSign(y), SqOf(x)[1], SqOf(x)[2], SqOf(y)[2], SqOf(y)[1])

\* numpy.sqrt: NaN for a negative or NaN argument
FSqrt(x) ==
    IF IsNaN(x) THEN NaN
    ELSE IF IsInf(x) THEN (IF x.n > 0 THEN PInf ELSE NaN)
    ELSE IF FSign(x) < 0 THEN NaN
    ELSE FromSq(FSign(x), x.n, x.d)

\* x > y; every comparison with NaN is false
FGt(x, y) ==
    IF IsNaN(x) \/ IsNaN(y) THEN FALSE
    ELSE IF IsInf(x) THEN x.n > 0 /\ ~(IsInf(y) /\ y.n > 0)
    ELSE IF IsInf(y) THEN y.n < 0
    ELSE IF FSign(x) # FSign(y) THEN FSign(x) > FSign(y)
    ELSE IF FSign(x) > 0 THEN SqOf(x)[1] * SqOf(y)[2] > SqOf(y)[1] * SqOf(x)[2]
    ELSE IF FSign(x) < 0 THEN SqOf(x)[1] * SqOf(y)[2] < SqOf(y)[1] * SqOf(x)[2]
    ELSE FALSE

\* x == y; NaN is equal to nothing, values are kept in canonical form
FEq(x, y) == ~IsNaN(x) /\ ~IsNaN(y) /\ x = y

FGe(x, y) == FGt(x, y) \/ FEq(x, y)

----------------------------------------------------------------------------
(* Tables and series (pandas DataFrame / Series) *)

\* the value of an absent object (Python None)
None == [none |-> TRUE]

\* the asset columns of the price tables of the model
ColumnNames == <<"A", "B">>

PriceVals == {Q(1, 1), Q(2, 1)}

\* a DataFrame: column labels, row labels (dates), and the rows of cells
Table(cols, idx, rows) == [columns |-> cols, index |-> idx, data |-> rows]

\* a Series: labels and values
Series(idx, vals) == [index |-> idx, data |-> vals]

NRows(t) == Len(t.index)

NCols(t) == Len(t.columns)

Column(t, c) == [r \in 1..NRows(t) |-> t.data[r][c]]

RECURSIVE SumSeq(_)
SumSeq(s) == IF s = <<>> THEN Zero ELSE FAdd(s[1], SumSeq(Tail(s)))

\* DataFrame.pct_change: each cell divided by the cell one row above, minus 1;
\* the first row has no row above and becomes NaN
PctChange(t) ==
    Table(t.columns, t.index,
          [r \in 1..NRows(t) |->
              [c \in 1..NCols(t) |->
                  FSub(FDiv(t.data[r][c], IF r = 1 THEN NaN ELSE t.data[r - 1][c]), One)]])

HasNaN(row) == \E c \in 1..Len(row) : IsNaN(row[c])

RECURSIVE KeepRows(_, _)
KeepRows(s, keep) ==
    IF s = <<>> THEN <<>>
    ELSE IF keep[1] THEN <<s[1]>> \o KeepRows(Tail(s), Tail(keep))
    ELSE KeepRows(Tail(s), Tail(keep))

\* DataFrame.dropna: the rows without a NaN cell, in order
DropNa(t) ==
    LET keep == [r \in 1..NRows(t) |-> ~HasNaN(t.data[r])]
    IN  Table(t.columns, KeepRows(t.index, keep), KeepRows(t.data, keep))

\* IsEmpty also holding of a table with a single row
IsEmptyBelowTwoRows(t) == NRows(t) < 2 \/ NCols(t) = 0

\* DataFrame.empty: some axis has length 0
IsEmpty(t) == NRows(t) = 0 \/ NCols(t) = 0

\* Series.mean / DataFrame.mean of one column: NaN when there is no value
MeanOf(s) == IF Len(s) = 0 THEN NaN ELSE FDiv(SumSeq(s), Q(Len(s), 1))

\* sum of squared deviations from the mean
SumSqDev(s) ==
    LET m == MeanOf(s)
    IN  SumSeq([i \in 1..Len(s) |-> FMul(FSub(s[i], m), FSub(s[i], m))])

\* sum of the products of the deviations of two columns
SumCoDev(s, u) ==
    LET ms == MeanOf(s)
        mu == MeanOf(u)
    IN  SumSeq([i \in 1..Len(s) |-> FMul(FSub(s[i], ms), FSub(u[i], mu))])

\* Series.std (ddof = 1): NaN with fewer than 2 values
StdOf(s) ==
    IF Len(s) < 2 THEN NaN ELSE FSqrt(FDiv(SumSqDev(s), Q(Len(s) - 1, 1)))

\* Pearson correlation of two columns as DataFrame.corr computes it:
\* NaN when there is no observation or the divisor is zero
CorrOf(s, u) ==
    LET divisor == FSqrt(FMul(SumSqDev(s), SumSqDev(u)))
    IN  IF Len(s) = 0 \/ FEq(divisor, Zero) THEN NaN
        ELSE FDiv(SumCoDev(s, u), divisor)

\* DataFrame.mean(): one value per column
ColMeans(t) == Series(t.columns, [c \in 1..NCols(t) |-> MeanOf(Column(t, c))])

\* DataFrame.std()
ColStds(t) == Series(t.columns, [c \in 1..NCols(t) |-> StdOf(Column(t, c))])

\* DataFrame.corr()
CorrMatrix(t) ==
    Table(t.columns, t.columns,
          [i \in 1..NCols(t) |-> [j \in 1..NCols(t) |-> CorrOf(Column(t, i), Column(t, j))]])

RECURSIVE CumProdSeq(_)
CumProdSeq(s) ==
    IF Len(s) <= 1 THEN s
    ELSE LET front == CumProdSeq(SubSeq(s, 1, Len(s) - 1))
         IN  Append(front, FMul(front[Len(front)], s[Len(s)]))

\* (1 + returns).cumprod() - 1, column by column
CumProdMinusOne(t) ==
    LET grown == [c \in 1..NCols(t) |->
                    CumProdSeq([r \in 1..NRows(t) |-> FAdd(One, t.data[r][c])])]
    IN  Table(t.columns, t.index,
              [r \in 1..NRows(t) |-> [c \in 1..NCols(t) |-> FSub(grown[c][r], One)]])

\* a Series times a scalar
ScaleSeries(s, x) == Series(s.index, [i \in 1..Len(s.data) |-> FMul(s.data[i], x)])

----------------------------------------------------------------------------
(* State *)

VARIABLES
    price_data,     \* PortfolioAnalyzer.price_data (None: no analyzer constructed)
    returns_data,   \* PortfolioAnalyzer.returns_data
    metrics,        \* PortfolioAnalyzer.metrics: a dict, key -> value
    last_call,      \* the last analyzer method called and the value it returned
    pairs_call,     \* a call of identify_high_correlation_pairs: arguments, result
    pf_call,        \* a call of calculate_portfolio_metrics: arguments, result
    pf_prev,        \* the call of calculate_portfolio_metrics before pf_call
    pc,             \* position of main() in its run
    stocks_input,   \* text of the ticker input box
    tickers,        \* main's local `tickers`
    downloads,      \* the frames yf.download gave the fetch that has just returned
    fetched,        \* main's local `price_data`: the result of fetch_stock_data
    fetch_calls,    \* ticker lists fetch_stock_data was called with, in order
    validate_calls, \* calls of validate_tickers by main: <<argument, result>>, in order
    caught,         \* the exception main's `except Exception` caught (None: none)
    st_errors,      \* messages shown with st.error, in order
    report          \* main's local `report`

analyzer_vars == <<price_data, returns_data, metrics, last_call>>
call_vars == <<pairs_call, pf_call, pf_prev>>
app_vars ==
    <<pc, stocks_input, tickers, downloads, fetched, fetch_calls, validate_calls, caught,
      st_errors, report>>
vars == <<analyzer_vars, call_vars, app_vars>>

NoCall == [op |-> "none", ret |-> None]

AnalyzerIdle ==
    /\ price_data = None
    /\ returns_data = None
    /\ metrics = <<>>
    /\ last_call = NoCall

CallsIdle ==
    /\ pairs_call = None
    /\ pf_call = None
    /\ pf_prev = None

AppIdle ==
    /\ pc = "idle"
    /\ stocks_input = <<>>
    /\ tickers = <<>>
    /\ downloads = <<>>
    /\ fetched = None
    /\ fetch_calls = <<>>
    /\ validate_calls = <<>>
    /\ caught = None
    /\ st_errors = <<>>
    /\ report = None

----------------------------------------------------------------------------
(* PortfolioAnalyzer *)

TradingDays == 252

\* risk_free_rate = 0.02 as the fraction 1/RiskFreeInv
RiskFreeInv == 50

\* DailyReturns without the dropna(): the NaN row of the first date is kept
DailyReturnsKeepFirstRow(prices) == PctChange(prices)

\* self.price_data.pct_change().dropna()
DailyReturns(prices) == DropNa(PctChange(prices))

\* EnsureReturns computing the returns without the dropna()
EnsureReturnsKeepFirstRow(prices, rets) == IF rets = None THEN PctChange(prices) ELSE rets

\* the `if self.returns_data is None: self.calculate_daily_returns()` prologue:
\* the value of self.returns_data after it
EnsureReturns(prices, rets) == IF rets = None THEN DailyReturns(prices) ELSE rets

\* self.returns_data.mean()
MeanReturn(rets) == ColMeans(rets)

\* self.returns_data.std()
Volatility(rets) == ColStds(rets)

\* mean * trading_days and volatility * np.sqrt(trading_days)
Annualize(mean, vol) ==
    [annualized_return |-> ScaleSeries(mean, Q(TradingDays, 1)),
     annualized_volatility |-> ScaleSeries(vol, FSqrt(Q(TradingDays, 1)))]

AnnualizedMetrics(rets) == Annualize(MeanReturn(rets), Volatility(rets))

\* CumulativeReturns with a running sum in place of the running product
CumulativeReturnsBySum(rets) ==
    Table(rets.columns, rets.index,
          [r \in 1..NRows(rets) |-> [c \in 1..NCols(rets) |->
              SumSeq([q \in 1..r |-> rets.data[q][c]])]])

\* (1 + self.returns_data).cumprod() - 1
CumulativeReturns(rets) == CumProdMinusOne(rets)

\* DataFrame.round(4) of one cell, kept symbolic: the 4-decimal rounding of x
\* (NaN and the infinities round to themselves)
Round4(x) == IF IsFinite(x) THEN [k |-> "round4", of |-> x] ELSE x

RiskReturnColumns ==
    <<"Mean Daily Return", "Volatility (Daily)", "Annualized Return (%)",
      "Annualized Volatility (%)", "Sharpe Ratio">>

\* RiskReturnTable with the portfolio-level guard on the Sharpe ratio: 0 when
\* the volatility is not greater than zero
RiskReturnTableGuarded(rets, mean, vol, ann) ==
    LET daily_risk_free == FDiv(Q(1, RiskFreeInv), Q(TradingDays, 1))
    IN  Table(RiskReturnColumns, rets.columns,
              [a \in 1..NCols(rets) |->
                  <<Round4(mean.data[a]),
                    Round4(vol.data[a]),
                    Round4(FMul(ann.annualized_return.data[a], Q(100, 1))),
                    Round4(FMul(ann.annualized_volatility.data[a], Q(100, 1))),
                    Round4(IF FGt(vol.data[a], Zero)
                           THEN FDiv(FSub(mean.data[a], daily_risk_free), vol.data[a])
                           ELSE Zero)>>])

\* the table calculate_risk_return_metrics builds from the mean and the
\* volatility it has stored and their annualized values, one row per asset
RiskReturnTable(rets, mean, vol, ann) ==
    LET daily_risk_free == FDiv(Q(1, RiskFreeInv), Q(TradingDays, 1))
    IN  Table(RiskReturnColumns, rets.columns,
              [a \in 1..NCols(rets) |->
                  <<Round4(mean.data[a]),
                    Round4(vol.data[a]),
                    Round4(FMul(ann.annualized_return.data[a], Q(100, 1))),
                    Round4(FMul(ann.annualized_volatility.data[a], Q(100, 1))),
                    Round4(FDiv(FSub(mean.data[a], daily_risk_free), vol.data[a]))>>])

RiskReturnMetrics(rets) ==
    LET mean == MeanReturn(rets)
        vol == Volatility(rets)
    IN  RiskReturnTable(rets, mean, vol, Annualize(mean, vol))

\* self.metrics after metrics[key] = value
SetMetric(m, key, value) == [x \in DOMAIN m \cup {key} |-> IF x = key THEN value ELSE m[x]]

\* the dict get_summary_report returns, for the returns it has just computed
SummaryReport(rets) ==
    LET mean == MeanReturn(rets)
        vol == Volatility(rets)
        ann == Annualize(mean, vol)
    IN  [mean_returns |-> mean,
         volatility |-> vol,
         annualized_metrics |-> ann,
         correlation_matrix |-> CorrMatrix(rets),
         risk_return_metrics |-> RiskReturnTable(rets, mean, vol, ann),
         cumulative_returns |-> CumulativeReturns(rets),
         returns_data |-> rets]

calculate_daily_returns ==
    /\ price_data # None
    /\ returns_data' = DailyReturns(price_data)
    /\ last_call' = [op |-> "calculate_daily_returns", ret |-> returns_data']
    /\ UNCHANGED <<price_data, metrics, call_vars, app_vars>>

calculate_mean_return ==
    /\ price_data # None
    /\ returns_data' = EnsureReturns(price_data, returns_data)
    /\ LET value == MeanReturn(returns_data')
       IN  /\ metrics' = SetMetric(metrics, "mean_return", value)
           /\ last_call' = [op |-> "calculate_mean_return", ret |-> value]
    /\ UNCHANGED <<price_data, call_vars, app_vars>>

calculate_volatility ==
    /\ price_data # None
    /\ returns_data' = EnsureReturns(price_data, returns_data)
    /\ LET value == Volatility(returns_data')
       IN  /\ metrics' = SetMetric(metrics, "volatility", value)
           /\ last_call' = [op |-> "calculate_volatility", ret |-> value]
    /\ UNCHANGED <<price_data, call_vars, app_vars>>

calculate_annualized_metrics ==
    /\ price_data # None
    /\ returns_data' = EnsureReturns(price_data, returns_data)
    /\ LET mean == MeanReturn(returns_data')
           vol == Volatility(returns_data')
       IN  /\ metrics' = SetMetric(SetMetric(metrics, "mean_return", mean), "volatility", vol)
           /\ last_call' = [op |-> "calculate_annualized_metrics",
                            ret |-> Annualize(mean, vol)]
    /\ UNCHANGED <<price_data, call_vars, app_vars>>

calculate_correlation_matrix ==
    /\ price_data # None
    /\ returns_data' = EnsureReturns(price_data, returns_data)
    /\ LET value == CorrMatrix(returns_data')
       IN  /\ metrics' = SetMetric(metrics, "correlation", value)
           /\ last_call' = [op |-> "calculate_correlation_matrix", ret |-> value]
    /\ UNCHANGED <<price_data, call_vars, app_vars>>

calculate_cumulative_returns ==
    /\ price_data # None
    /\ returns_data' = EnsureReturns(price_data, returns_data)
    /\ last_call' = [op |-> "calculate_cumulative_returns",
                     ret |-> CumulativeReturns(returns_data')]
    /\ UNCHANGED <<price_data, metrics, call_vars, app_vars>>

calculate_risk_return_metrics ==
    /\ price_data # None
    /\ returns_data' = EnsureReturns(price_data, returns_data)
    /\ LET mean == MeanReturn(returns_data')
           vol == Volatility(returns_data')
       IN  /\ metrics' = SetMetric(SetMetric(metrics, "mean_return", mean), "volatility", vol)
           /\ last_call' = [op |-> "calculate_risk_return_metrics",
                            ret |-> RiskReturnTable(returns_data', mean, vol,
                                                    Annualize(mean, vol))]
    /\ UNCHANGED <<price_data, call_vars, app_vars>>

get_summary_report ==
    /\ price_data # None
    /\ LET rets == DailyReturns(price_data)
           rep == SummaryReport(rets)
       IN  /\ returns_data' = rets
           /\ metrics' = SetMetric(SetMetric(SetMetric(metrics,
                                       "mean_return", rep.mean_returns),
                                       "volatility", rep.volatility),
                                       "correlation", rep.correlation_matrix)
           /\ last_call' = [op |-> "get_summary_report", ret |-> rep]
    /\ UNCHANGED <<price_data, call_vars, app_vars>>

\* every table an analyzer can be constructed on: 1..Len(ColumnNames) columns,
\* 0..MaxRows rows of positive prices, no missing cell
PriceTables(maxrows) ==
    UNION {
        { Table(SubSeq(ColumnNames, 1, nc), [r \in 1..nr |-> r], rows) :
            rows \in [1..nr -> [1..nc -> PriceVals]] } :
        nc \in 1..Len(ColumnNames), nr \in 0..maxrows }

\* PortfolioAnalyzer.__init__
InitAnalyzer ==
    /\ price_data \in PriceTables(MaxRows)
    /\ returns_data = None
    /\ metrics = <<>>
    /\ last_call = NoCall
    /\ CallsIdle
    /\ AppIdle

NextAnalyzer ==
    \/ calculate_daily_returns
    \/ calculate_mean_return
    \/ calculate_volatility
    \/ calculate_annualized_metrics
    \/ calculate_correlation_matrix
    \/ calculate_cumulative_returns
    \/ calculate_risk_return_metrics
    \/ get_summary_report

SpecAnalyzer == InitAnalyzer /\ [][NextAnalyzer]_vars

----------------------------------------------------------------------------
(* identify_high_correlation_pairs *)

\* InsertByAbsDesc placing an element before the elements with an equal key
RECURSIVE InsertByAbsDescUnstable(_, _)
InsertByAbsDescUnstable(sorted, e) ==
    IF sorted = <<>> THEN <<e>>
    ELSE IF FGe(FAbs(e[3]), FAbs(sorted[1][3])) THEN <<e>> \o sorted
    ELSE <<sorted[1]>> \o InsertByAbsDescUnstable(Tail(sorted), e)

\* sorted(..., key=abs(x[2]), reverse=True) places an element: after every
\* element whose key is not smaller (the sort is stable, also when reversed)
RECURSIVE InsertByAbsDesc(_, _)
InsertByAbsDesc(sorted, e) ==
    IF sorted = <<>> THEN <<e>>
    ELSE IF FGt(FAbs(e[3]), FAbs(sorted[1][3])) THEN <<e>> \o sorted
    ELSE <<sorted[1]>> \o InsertByAbsDesc(Tail(sorted), e)

RECURSIVE SortByAbsDesc(_)
SortByAbsDesc(ps) ==
    IF ps = <<>> THEN <<>>
    ELSE InsertByAbsDesc(SortByAbsDesc(SubSeq(ps, 1, Len(ps) - 1)), ps[Len(ps)])

\* CollectPairs keeping a pair only when abs(coefficient) > threshold
RECURSIVE CollectPairsStrict(_, _, _, _)
CollectPairsStrict(cm, threshold, i, j) ==
    IF i > NCols(cm) THEN <<>>
    ELSE IF j > NCols(cm) THEN CollectPairsStrict(cm, threshold, i + 1, i + 2)
    ELSE (IF FGt(FAbs(cm.data[i][j]), threshold)
          THEN <<<<cm.columns[i], cm.columns[j], cm.data[i][j]>>>>
          ELSE <<>>)
         \o CollectPairsStrict(cm, threshold, i, j + 1)

\* the loops over i and j > i from position (i, j) on: the pairs appended
RECURSIVE CollectPairs(_, _, _, _)
CollectPairs(cm, threshold, i, j) ==
    IF i > NCols(cm) THEN <<>>
    ELSE IF j > NCols(cm) THEN CollectPairs(cm, threshold, i + 1, i + 2)
    ELSE (IF FGe(FAbs(cm.data[i][j]), threshold)
          THEN <<<<cm.columns[i], cm.columns[j], cm.data[i][j]>>>>
          ELSE <<>>)
         \o CollectPairs(cm, threshold, i, j + 1)

identify_high_correlation_pairs(cm, threshold) ==
    SortByAbsDesc(CollectPairs(cm, threshold, 1, 2))

CorrNames == <<"A", "B", "C", "D">>

CorrVals == {Q(-1, 1), Q(-1, 2), Q(1, 2), Q(1, 1), NaN}

Thresholds == {Q(-1, 2), Q(0, 1), Q(1, 2), Q(1, 1), Q(3, 2)}

UpperPairs(n) == {ij \in (1..n) \X (1..n) : ij[1] < ij[2]}

\* the symmetric matrix with unit diagonal and the given entries above it
SymMatrix(n, upper) ==
    Table(SubSeq(CorrNames, 1, n), SubSeq(CorrNames, 1, n),
          [i \in 1..n |-> [j \in 1..n |->
              IF i = j THEN One ELSE IF i < j THEN upper[<<i, j>>] ELSE upper[<<j, i>>]]])

\* the correlation matrices of 1..maxn assets
CorrMatrices(maxn) ==
    UNION { {SymMatrix(n, upper) : upper \in [UpperPairs(n) -> CorrVals]} : n \in 1..maxn }

InitPairs ==
    /\ pairs_call \in [corr : CorrMatrices(MaxCorrAssets), threshold : Thresholds,
                        done : {FALSE}, ret : {<<>>}]
    /\ pf_call = None
    /\ pf_prev = None
    /\ AnalyzerIdle
    /\ AppIdle

CallIdentifyPairs ==
    /\ ~pairs_call.done
    /\ pairs_call' = [pairs_call EXCEPT
                        !.done = TRUE,
                        !.ret = identify_high_correlation_pairs(pairs_call.corr,
                                                                pairs_call.threshold)]
    /\ UNCHANGED <<pf_call, pf_prev, analyzer_vars, app_vars>>

NextPairs == CallIdentifyPairs

SpecPairs == InitPairs /\ [][NextPairs]_vars

----------------------------------------------------------------------------
(* calculate_portfolio_metrics *)

\* np.dot of two vectors / np.sum of their product
Dot(x, y) == SumSeq([i \in 1..Len(x) |-> FMul(x[i], y[i])])

\* CovMatrix scaling row i by volatility[i] only
CovMatrixRowScaled(volatility, cm) ==
    [i \in 1..Len(volatility) |-> [j \in 1..Len(volatility) |->
        FMul(cm.data[i][j], volatility[i])]]

\* correlation_matrix.values * np.outer(volatility, volatility)
CovMatrix(volatility, cm) ==
    [i \in 1..Len(volatility) |-> [j \in 1..Len(volatility) |->
        FMul(cm.data[i][j], FMul(volatility[i], volatility[j]))]]

\* calculate_portfolio_metrics dividing without the guard on the volatility
calculate_portfolio_metrics_unguarded(weights, returns, volatility, cm) ==
    LET portfolio_return == Dot(weights, returns)
        cov_matrix == CovMatrix(volatility, cm)
        portfolio_volatility ==
            FSqrt(Dot(weights, [i \in 1..Len(weights) |-> Dot(cov_matrix[i], weights)]))
    IN  [portfolio_return |-> portfolio_return,
         portfolio_volatility |-> portfolio_volatility,
         sharpe_ratio |-> FDiv(portfolio_return, portfolio_volatility)]

\* calculate_portfolio_metrics dividing the weights by their sum first
calculate_portfolio_metrics_renormalized(weights, returns, volatility, cm) ==
    LET total == SumSeq(weights)
        w == [i \in 1..Len(weights) |->
                IF FEq(total, Zero) THEN weights[i] ELSE FDiv(weights[i], total)]
        portfolio_return == Dot(w, returns)
        cov_matrix == CovMatrix(volatility, cm)
        portfolio_volatility ==
            FSqrt(Dot(w, [i \in 1..Len(w) |-> Dot(cov_matrix[i], w)]))
    IN  [portfolio_return |-> portfolio_return,
         portfolio_volatility |-> portfolio_volatility,
         sharpe_ratio |-> IF FGt(portfolio_volatility, Zero)
                          THEN FDiv(portfolio_return, portfolio_volatility)
                          ELSE Zero]

calculate_portfolio_metrics(weights, returns, volatility, cm) ==
    LET portfolio_return == Dot(weights, returns)
        cov_matrix == CovMatrix(volatility, cm)
        portfolio_volatility ==
            FSqrt(Dot(weights, [i \in 1..Len(weights) |-> Dot(cov_matrix[i], weights)]))
    IN  [portfolio_return |-> portfolio_return,
         portfolio_volatility |-> portfolio_volatility,
         sharpe_ratio |-> IF FGt(portfolio_volatility, Zero)
                          THEN FDiv(portfolio_return, portfolio_volatility)
                          ELSE Zero]

WeightVals == {Q(0, 1), Q(1, 2), Q(1, 1)}

ReturnVals == {Q(-1, 1), Q(1, 2)}

VolVals == {Q(0, 1), Q(1, 1), Q(2, 1)}

PfCorrVals == {Q(-1, 1), Q(1, 2)}

ScaleFactors == {Q(1, 2), Q(3, 1)}

\* statistics of n assets as get_summary_report derives them from a price
\* table: with one return row every volatility and correlation is NaN; with
\* no return row the means are NaN too; a constant-price asset has volatility
\* 0 and NaN correlations, its diagonal entry included
PfStatistics(n) ==
    { [returns |-> [i \in 1..n |-> NaN], volatility |-> [i \in 1..n |-> NaN],
       corr |-> Table(SubSeq(CorrNames, 1, n), SubSeq(CorrNames, 1, n),
                      [i \in 1..n |-> [j \in 1..n |-> NaN]])] }
    \cup
    { [returns |-> r, volatility |-> [i \in 1..n |-> NaN],
       corr |-> Table(SubSeq(CorrNames, 1, n), SubSeq(CorrNames, 1, n),
                      [i \in 1..n |-> [j \in 1..n |-> NaN]])] :
      r \in [1..n -> ReturnVals] }
    \cup
    { [returns |-> r, volatility |-> v,
       corr |-> Table(SubSeq(CorrNames, 1, n), SubSeq(CorrNames, 1, n),
                      [i \in 1..n |-> [j \in 1..n |->
                          IF FEq(v[i], Zero) \/ FEq(v[j], Zero) THEN NaN
                          ELSE IF i = j THEN One
                          ELSE IF i < j THEN upper[<<i, j>>] ELSE upper[<<j, i>>]]])] :
      r \in [1..n -> ReturnVals], v \in [1..n -> VolVals],
      upper \in [UpperPairs(n) -> PfCorrVals] }

\* the argument lists of calculate_portfolio_metrics for 1..maxn assets
PfArguments(maxn) ==
    UNION { { [weights |-> w, returns |-> st.returns, volatility |-> st.volatility,
               corr |-> st.corr] :
              w \in [1..n -> WeightVals], st \in PfStatistics(n) } :
            n \in 1..maxn }

InitPortfolio ==
    /\ pf_call \in {[args |-> a, scale |-> One, done |-> FALSE, ret |-> None] :
                      a \in PfArguments(MaxPfAssets)}
    /\ pf_prev = None
    /\ pairs_call = None
    /\ AnalyzerIdle
    /\ AppIdle

\* the call with the arguments drawn
CallPortfolioMetrics ==
    /\ ~pf_call.done
    /\ pf_call' = [pf_call EXCEPT
                     !.done = TRUE,
                     !.ret = calculate_portfolio_metrics(pf_call.args.weights,
                                                         pf_call.args.returns,
                                                         pf_call.args.volatility,
                                                         pf_call.args.corr)]
    /\ UNCHANGED <<pf_prev, pairs_call, analyzer_vars, app_vars>>

\* a second call with every weight multiplied by k, the other arguments kept
CallPortfolioMetricsScaled ==
    /\ pf_call.done
    /\ pf_prev = None
    /\ \E k \in ScaleFactors :
          LET w == [i \in 1..Len(pf_call.args.weights) |-> FMul(k, pf_call.args.weights[i])]
          IN  pf_call' = [args |-> [pf_call.args EXCEPT !.weights = w],
                          scale |-> k,
                          done |-> TRUE,
                          ret |-> calculate_portfolio_metrics(w, pf_call.args.returns,
                                                              pf_call.args.volatility,
                                                              pf_call.args.corr)]
    /\ pf_prev' = pf_call
    /\ UNCHANGED <<pairs_call, analyzer_vars, app_vars>>

NextPortfolio ==
    \/ CallPortfolioMetrics
    \/ CallPortfolioMetricsScaled

SpecPortfolio == InitPortfolio /\ [][NextPortfolio]_vars

----------------------------------------------------------------------------
(* utils.py: validate_tickers and fetch_stock_data *)

\* Python values handed to validate_tickers: [type, items, value]
PyStr(chars) == [type |-> "str", items |-> <<>>, value |-> chars]
PyInt == [type |-> "int", items |-> <<>>, value |-> <<>>]
PyNone == [type |-> "NoneType", items |-> <<>>, value |-> <<>>]
PyList(items) == [type |-> "list", items |-> items, value |-> <<>>]
PyTuple(items) == [type |-> "tuple", items |-> items, value |-> <<>>]

\* a list of str, as main builds it
PyStrList(ts) == PyList([i \in 1..Len(ts) |-> PyStr(ts[i])])

\* validate_tickers without the check for an empty list
validate_tickers_nonempty_unchecked(arg) ==
    IF arg.type # "list" THEN FALSE
    ELSE \A i \in 1..Len(arg.items) :
            ~(arg.items[i].type # "str" \/ Len(arg.items[i].value) = 0)

validate_tickers(arg) ==
    IF arg.type # "list" \/ Len(arg.items) = 0 THEN FALSE
    ELSE \A i \in 1..Len(arg.items) :
            ~(arg.items[i].type # "str" \/ Len(arg.items[i].value) = 0)

\* column layouts of a frame with data that yf.download returns: with
\* 'Adj Close' and without it (one installation returns one of them)
DataLayouts ==
    { <<"Open", "High", "Low", "Close", "Adj Close", "Volume">>,
      <<"Close", "High", "Low", "Open", "Volume">> }

\* what one yf.download call does: raise exc, or return a frame with these
\* columns and one row per date it has data for (every price column of the
\* frame carries the series `prices`)
Frame(cols, dates, prices) == [exc |-> None, columns |-> cols, dates |-> dates, prices |-> prices]

DownloadRaises == [exc |-> [error |-> "DownloadError"], columns |-> <<>>, dates |-> <<>>,
                   prices |-> <<>>]

Missing == [k |-> "missing", n |-> 0, d |-> 1]

\* the outcomes of one download: an exception, a frame of the layout with a
\* price on some of the dates 1..maxdates, or a frame without any column
DownloadOutcomes(layout, maxdates) ==
    {DownloadRaises}
    \cup
    { LET present == [dt \in 1..maxdates |-> cells[dt] # Missing]
      IN  Frame(layout, KeepRows([dt \in 1..maxdates |-> dt], present),
                KeepRows(cells, present)) :
        cells \in [1..maxdates -> PriceVals \cup {Missing}] }
    \cup
    { Frame(<<>>, <<>>, <<>>) }

HasColumn(frame, name) == \E c \in 1..Len(frame.columns) : frame.columns[c] = name

\* lines 43-47 for one frame: the exception the column selection raises, or None
SelectRaises(frame) ==
    IF HasColumn(frame, "Adj Close") THEN None
    ELSE IF Len(frame.columns) >= 4 THEN None
    ELSE [error |-> "IndexError"]

\* one iteration of the loop over the tickers raises
IterationRaises(frame) == frame.exc # None \/ SelectRaises(frame) # None

\* the exception the loop over the tickers raises first, or None
RECURSIVE LoopRaises(_)
LoopRaises(dl) ==
    IF dl = <<>> THEN None
    ELSE IF dl[1].exc # None THEN dl[1].exc
    ELSE IF SelectRaises(dl[1]) # None THEN SelectRaises(dl[1])
    ELSE LoopRaises(Tail(dl))

HasDate(frame, dt) == \E r \in 1..Len(frame.dates) : frame.dates[r] = dt

PriceAt(frame, dt) == frame.prices[CHOOSE r \in 1..Len(frame.dates) : frame.dates[r] = dt]

\* the dates some frame has a row for, in ascending order (the index of the
\* concatenated frame)
RECURSIVE UnionDates(_, _)
UnionDates(dl, dt) ==
    IF \A i \in 1..Len(dl) : \A r \in 1..Len(dl[i].dates) : dl[i].dates[r] < dt THEN <<>>
    ELSE (IF \E i \in 1..Len(dl) : HasDate(dl[i], dt) THEN <<dt>> ELSE <<>>)
         \o UnionDates(dl, dt + 1)

\* ConcatDropNa without the dropna(): a date some frame lacks keeps a NaN cell
ConcatKeepNa(ts, dl) ==
    LET dates == UnionDates(dl, 1)
    IN  Table(ts, dates,
              [r \in 1..Len(dates) |-> [c \in 1..Len(ts) |->
                  IF HasDate(dl[c], dates[r]) THEN PriceAt(dl[c], dates[r]) ELSE NaN]])

\* pd.concat(dataframes, axis=1).dropna(): one column per ticker, the dates
\* every frame has a row for, in ascending order
ConcatDropNa(ts, dl) ==
    LET all == UnionDates(dl, 1)
        keep == [r \in 1..Len(all) |-> \A i \in 1..Len(dl) : HasDate(dl[i], all[r])]
        dates == KeepRows(all, keep)
    IN  Table(ts, dates,
              [r \in 1..Len(dates) |-> [c \in 1..Len(ts) |-> PriceAt(dl[c], dates[r])]])

\* fetch_stock_data raising an error of its own in place of the one it caught
fetch_stock_data_wrapping(ts, dl) ==
    IF LoopRaises(dl) # None THEN [exc |-> [error |-> "FetchError"], value |-> None]
    ELSE IF Len(ts) = 0 THEN [exc |-> [error |-> "ValueError"], value |-> None]
    ELSE [exc |-> None, value |-> ConcatDropNa(ts, dl)]

\* fetch_stock_data(tickers, ...) when yf.download behaves as dl[i] for the
\* i-th ticker (the loop ends at the first download that raises, so dl may be
\* shorter than the ticker list): [exc, value]; an exception is logged and
\* re-raised
fetch_stock_data(ts, dl) ==
    IF LoopRaises(dl) # None THEN [exc |-> LoopRaises(dl), value |-> None]
    ELSE IF Len(ts) = 0 THEN [exc |-> [error |-> "ValueError"], value |-> None]
    ELSE [exc |-> None, value |-> ConcatDropNa(ts, dl)]

----------------------------------------------------------------------------
(* app.py: main *)

InputChars == {"a", "B", " ", ","}

InputStrings(maxlen) == UNION { [1..n -> InputChars] : n \in 0..maxlen }

HasComma(str) == \E i \in 1..Len(str) : str[i] = ","

\* str.split(",")
RECURSIVE SplitComma(_)
SplitComma(str) ==
    IF ~HasComma(str) THEN <<str>>
    ELSE LET i == CHOOSE x \in 1..Len(str) : str[x] = "," /\ \A y \in 1..(x - 1) : str[y] # ","
         IN  <<SubSeq(str, 1, i - 1)>> \o SplitComma(SubSeq(str, i + 1, Len(str)))

RECURSIVE LStrip(_)
LStrip(str) == IF str # <<>> /\ str[1] = " " THEN LStrip(Tail(str)) ELSE str

RECURSIVE RStrip(_)
RStrip(str) ==
    IF str # <<>> /\ str[Len(str)] = " " THEN RStrip(SubSeq(str, 1, Len(str) - 1)) ELSE str

\* str.strip()
Strip(str) == LStrip(RStrip(str))

\* str.upper()
Upper(str) == [i \in 1..Len(str) |-> IF str[i] = "a" THEN "A" ELSE str[i]]

\* [s.strip().upper() for s in stocks_input.split(",") if s.strip()]
ParseTickers(str) ==
    LET parts == SplitComma(str)
        keep == [i \in 1..Len(parts) |-> Strip(parts[i]) # <<>>]
        kept == KeepRows(parts, keep)
    IN  [i \in 1..Len(kept) |-> Upper(Strip(kept[i]))]

MsgInvalidTickers == "Please enter valid stock tickers."
MsgNoData == "No data retrieved. Please check ticker symbols and date range."
MsgErrorOccurred == "An error occurred"

InitApp ==
    /\ pc = "start"
    /\ stocks_input \in InputStrings(MaxInputLen)
    /\ tickers = <<>>
    /\ downloads = <<>>
    /\ fetched = None
    /\ fetch_calls = <<>>
    /\ validate_calls = <<>>
    /\ caught = None
    /\ st_errors = <<>>
    /\ report = None
    /\ AnalyzerIdle
    /\ CallsIdle

\* line 52: the ticker list is parsed from the input box
ParseInput ==
    /\ pc = "start"
    /\ tickers' = ParseTickers(stocks_input)
    /\ pc' = "validate"
    /\ UNCHANGED <<stocks_input, downloads, fetched, fetch_calls, validate_calls, caught,
                   st_errors, report, analyzer_vars, call_vars>>

\* lines 97-99
ValidateStep ==
    /\ pc = "validate"
    /\ validate_calls' = Append(validate_calls,
                                <<PyStrList(tickers), validate_tickers(PyStrList(tickers))>>)
    /\ IF ~validate_tickers(PyStrList(tickers))
       THEN /\ st_errors' = Append(st_errors, MsgInvalidTickers)
            /\ pc' = "done"
       ELSE /\ pc' = "fetch"
            /\ UNCHANGED st_errors
    /\ UNCHANGED <<stocks_input, tickers, downloads, fetched, fetch_calls, caught, report,
                   analyzer_vars, call_vars>>

\* the downloads of one call of fetch_stock_data: one per ticker up to the
\* first iteration that raises
DownloadRuns(ts, maxdates) ==
    UNION { { dl \in [1..n -> DownloadOutcomes(layout, maxdates)] :
                /\ \A i \in 1..(n - 1) : ~IterationRaises(dl[i])
                /\ n < Len(ts) => IterationRaises(dl[n]) } :
            n \in (IF Len(ts) = 0 THEN 0 ELSE 1)..Len(ts), layout \in DataLayouts }

\* lines 101-106, and lines 328-330 when fetch_stock_data raises
FetchStep ==
    /\ pc = "fetch"
    /\ \E dl \in DownloadRuns(tickers, MaxDates) :
          LET res == fetch_stock_data(tickers, dl)
          IN  /\ downloads' = dl
              /\ fetch_calls' = Append(fetch_calls, tickers)
              /\ IF res.exc # None
                 THEN /\ caught' = res.exc
                      /\ st_errors' = Append(st_errors, MsgErrorOccurred)
                      /\ pc' = "done"
                      /\ UNCHANGED fetched
                 ELSE /\ fetched' = res.value
                      /\ pc' = "check_empty"
                      /\ UNCHANGED <<caught, st_errors>>
    /\ UNCHANGED <<stocks_input, tickers, validate_calls, report, analyzer_vars, call_vars>>

\* lines 108-110 (the frames of the fetch are gone by now)
CheckEmptyStep ==
    /\ pc = "check_empty"
    /\ downloads' = <<>>
    /\ IF IsEmpty(fetched)
       THEN /\ st_errors' = Append(st_errors, MsgNoData)
            /\ pc' = "done"
       ELSE /\ pc' = "analyze"
            /\ UNCHANGED st_errors
    /\ UNCHANGED <<stocks_input, tickers, fetched, fetch_calls, validate_calls,
                   caught, report, analyzer_vars, call_vars>>

\* lines 112-114: analyzer = PortfolioAnalyzer(price_data);
\* report = analyzer.get_summary_report()
AnalyzeStep ==
    /\ pc = "analyze"
    /\ price_data' = fetched
    /\ LET rets == DailyReturns(fetched)
           rep == SummaryReport(rets)
       IN  /\ returns_data' = rets
           /\ metrics' = SetMetric(SetMetric(SetMetric(<<>>,
                                       "mean_return", rep.mean_returns),
                                       "volatility", rep.volatility),
                                       "correlation", rep.correlation_matrix)
           /\ last_call' = [op |-> "get_summary_report", ret |-> rep]
           /\ report' = rep
    /\ pc' = "display"
    /\ UNCHANGED <<stocks_input, tickers, downloads, fetched, fetch_calls, validate_calls,
                   caught, st_errors, call_vars>>

\* lines 115-274: the report is displayed
DisplayStep ==
    /\ pc = "display"
    /\ pc' = "portfolio"
    /\ UNCHANGED <<stocks_input, tickers, downloads, fetched, fetch_calls, validate_calls,
                   caught, st_errors, report, analyzer_vars, call_vars>>

\* max_value of a weight slider
SliderMax == 100

\* values a weight slider is set to
SliderVals == {0, 1, SliderMax}

HasDuplicates(names) ==
    \E i, j \in 1..Len(names) : i # j /\ names[i] = names[j]

\* Weights dividing by the total also when the total is 0
WeightsUnguarded(sliders, ntickers) ==
    LET weights == [i \in 1..Len(sliders) |-> FDiv(Q(sliders[i], 1), Q(SliderMax, 1))]
        total_weight == SumSeq(weights)
    IN  [i \in 1..Len(weights) |-> FDiv(weights[i], total_weight)]

\* lines 276-294: the weight list built from the slider values, one slider
\* per column of the price table
Weights(sliders, ntickers) ==
    LET weights == [i \in 1..Len(sliders) |-> FDiv(Q(sliders[i], 1), Q(SliderMax, 1))]
        total_weight == SumSeq(weights)
    IN  IF FGt(total_weight, Zero)
        THEN [i \in 1..Len(weights) |-> FDiv(weights[i], total_weight)]
        ELSE [i \in 1..ntickers |-> FDiv(One, Q(ntickers, 1))]

\* lines 275-326: the weight sliders (st.slider raises on a key used twice,
\* lines 328-330 report it), the call of calculate_portfolio_metrics, and the
\* export buttons
PortfolioStep ==
    /\ pc = "portfolio"
    /\ IF HasDuplicates(price_data.columns)
       THEN /\ caught' = [error |-> "DuplicateWidgetID"]
            /\ st_errors' = Append(st_errors, MsgErrorOccurred)
            /\ UNCHANGED pf_call
       ELSE /\ \E sliders \in [1..NCols(price_data) -> SliderVals] :
                  LET weights == Weights(sliders, Len(tickers))
                      args == [weights |-> weights,
                               returns |-> report.annualized_metrics.annualized_return.data,
                               volatility |->
                                   report.annualized_metrics.annualized_volatility.data,
                               corr |-> report.correlation_matrix]
                  IN  pf_call' = [args |-> args, scale |-> One, done |-> TRUE,
                                  sliders |-> sliders,
                                  ret |-> calculate_portfolio_metrics(
                                              args.weights, args.returns,
                                              args.volatility, args.corr)]
            /\ UNCHANGED <<caught, st_errors>>
    /\ pc' = "done"
    /\ UNCHANGED <<stocks_input, tickers, downloads, fetched, fetch_calls, validate_calls,
                   report, analyzer_vars, pairs_call, pf_prev>>

NextApp ==
    \/ ParseInput
    \/ ValidateStep
    \/ FetchStep
    \/ CheckEmptyStep
    \/ AnalyzeStep
    \/ DisplayStep
    \/ PortfolioStep

SpecApp == InitApp /\ [][NextApp]_vars

----------------------------------------------------------------------------
(* Properties of PortfolioAnalyzer, checked under SpecAnalyzer *)

\* C1: on a price table with at least 2 rows calculate_daily_returns returns
\* (and stores) a table with rows-1 rows, the same asset columns, the first
\* date dropped, and cell (t, asset) = (price[t] - price[t-1]) / price[t-1].
C1_DailyReturns ==
    (last_call.op = "calculate_daily_returns" /\ NRows(price_data) >= 2) =>
        LET ret == last_call.ret
        IN  /\ returns_data = ret
            /\ NRows(ret) = NRows(price_data) - 1
            /\ Len(ret.data) = NRows(price_data) - 1
            /\ ret.columns = price_data.columns
            /\ ret.index = Tail(price_data.index)
            /\ \A t \in 2..NRows(price_data) :
                  /\ Len(ret.data[t - 1]) = NCols(price_data)
                  /\ \A c \in 1..NCols(price_data) :
                        FEq(ret.data[t - 1][c],
                            FDiv(FSub(price_data.data[t][c], price_data.data[t - 1][c]),
                                 price_data.data[t - 1][c]))

C1_Witness ==
    /\ last_call.op = "calculate_daily_returns"
    /\ NRows(price_data) = MaxRows
    /\ NCols(price_data) = 2
    /\ \E t \in 1..NRows(last_call.ret) :
          /\ FGt(last_call.ret.data[t][1], Zero)
          /\ FGt(Zero, last_call.ret.data[t][2])

\* C8: calculate_cumulative_returns returns a table of the shape of the
\* return table with, per asset column, cumulative[0] = return[0] and
\* cumulative[t] = (1 + cumulative[t-1]) * (1 + return[t]) - 1; the return
\* table it read is the one derived from the prices, and a repeated call
\* returns the same table and leaves the return table unchanged.
C8_Recurrence ==
    last_call.op = "calculate_cumulative_returns" =>
        LET cum == last_call.ret
        IN  /\ returns_data = DropNa(PctChange(price_data))
            /\ cum.columns = returns_data.columns
            /\ cum.index = returns_data.index
            /\ Len(cum.data) = NRows(returns_data)
            /\ \A t \in 1..NRows(returns_data) : \A c \in 1..NCols(returns_data) :
                  IF t = 1 THEN FEq(cum.data[t][c], returns_data.data[t][c])
                  ELSE FEq(cum.data[t][c],
                           FSub(FMul(FAdd(One, cum.data[t - 1][c]),
                                     FAdd(One, returns_data.data[t][c])), One))

C8_Idempotent ==
    [][(last_call.op = "calculate_cumulative_returns" /\ calculate_cumulative_returns)
        => (last_call'.ret = last_call.ret /\ returns_data' = returns_data)]_vars

C8_Cumulative == []C8_Recurrence /\ C8_Idempotent

C8_Witness ==
    /\ last_call.op = "calculate_cumulative_returns"
    /\ NRows(returns_data) >= 2
    /\ NCols(returns_data) = 2
    /\ \E c \in 1..2 :
          /\ ~FEq(returns_data.data[1][c], Zero)
          /\ ~FEq(returns_data.data[2][c], Zero)
          /\ ~FEq(last_call.ret.data[2][c],
                  FAdd(returns_data.data[1][c], returns_data.data[2][c]))

----------------------------------------------------------------------------
(* Properties of identify_high_correlation_pairs, checked under SpecPairs *)

ColPos(cm, name) == CHOOSE i \in 1..NCols(cm) : cm.columns[i] = name

\* the number of pairs i < j of the matrix whose coefficient is not NaN
DefinedPairs(cm) ==
    Cardinality({ij \in UpperPairs(NCols(cm)) : ~IsNaN(cm.data[ij[1]][ij[2]])})

\* the pair (i, j) is in the result, with its coefficient
InResult(cm, ret, i, j) ==
    \E a \in 1..Len(ret) : ret[a] = <<cm.columns[i], cm.columns[j], cm.data[i][j]>>

\* C3: the result holds each unordered pair (i < j) at most once, holds the
\* pair (column[i], column[j], M[i,j]) exactly when abs(M[i,j]) >= threshold,
\* is ordered by non-increasing absolute coefficient, and keeps pairs of equal
\* absolute coefficient in their row-major enumeration order.
C3_PairsSorted ==
    pairs_call.done =>
        LET cm == pairs_call.corr
            ret == pairs_call.ret
        IN  /\ \A a \in 1..Len(ret) :
                  \E ij \in UpperPairs(NCols(cm)) :
                      ret[a] = <<cm.columns[ij[1]], cm.columns[ij[2]], cm.data[ij[1]][ij[2]]>>
            /\ \A a, b \in 1..Len(ret) :
                  a # b => /\ <<ret[a][1], ret[a][2]>> # <<ret[b][1], ret[b][2]>>
                           /\ <<ret[a][1], ret[a][2]>> # <<ret[b][2], ret[b][1]>>
            /\ \A ij \in UpperPairs(NCols(cm)) :
                  InResult(cm, ret, ij[1], ij[2])
                      <=> FGe(FAbs(cm.data[ij[1]][ij[2]]), pairs_call.threshold)
            /\ \A a, b \in 1..Len(ret) :
                  a < b =>
                      /\ FGe(FAbs(ret[a][3]), FAbs(ret[b][3]))
                      /\ FEq(FAbs(ret[a][3]), FAbs(ret[b][3])) =>
                            \/ ColPos(cm, ret[a][1]) < ColPos(cm, ret[b][1])
                            \/ /\ ColPos(cm, ret[a][1]) = ColPos(cm, ret[b][1])
                               /\ ColPos(cm, ret[a][2]) < ColPos(cm, ret[b][2])

C3_Witness ==
    /\ pairs_call.done
    /\ Len(pairs_call.ret) = 3
    /\ FGt(FAbs(pairs_call.ret[1][3]), FAbs(pairs_call.ret[2][3]))
    /\ FEq(FAbs(pairs_call.ret[2][3]), FAbs(pairs_call.ret[3][3]))
    /\ ~FEq(pairs_call.ret[2][3], pairs_call.ret[3][3])

\* C4 as claimed: threshold 0 returns all n*(n-1)/2 pairs, pairs with an
\* undefined coefficient included; threshold 1 returns only pairs with
\* coefficient 1 or -1; a threshold outside [0, 1] returns the full or the
\* empty list.
C4_Original ==
    pairs_call.done =>
        LET n == NCols(pairs_call.corr)
            ret == pairs_call.ret
            t == pairs_call.threshold
        IN  /\ FEq(t, Zero) => Len(ret) = (n * (n - 1)) \div 2
            /\ FEq(t, One) => \A a \in 1..Len(ret) : FEq(FAbs(ret[a][3]), One)
            /\ (FGt(Zero, t) \/ FGt(t, One)) => Len(ret) \in {0, (n * (n - 1)) \div 2}

\* C4 (amended): a pair whose coefficient is NaN is never returned; threshold
\* 0, and any threshold below 0, returns every pair whose coefficient is
\* defined; threshold 1 returns exactly the pairs with coefficient 1 or -1;
\* a threshold above 1 returns the empty list.
C4_Thresholds ==
    pairs_call.done =>
        LET cm == pairs_call.corr
            ret == pairs_call.ret
            t == pairs_call.threshold
        IN  /\ \A a \in 1..Len(ret) : ~IsNaN(ret[a][3])
            /\ ~FGt(t, Zero) =>
                  /\ Len(ret) = DefinedPairs(cm)
                  /\ \A ij \in UpperPairs(NCols(cm)) :
                        InResult(cm, ret, ij[1], ij[2]) <=> ~IsNaN(cm.data[ij[1]][ij[2]])
            /\ FEq(t, One) =>
                  \A ij \in UpperPairs(NCols(cm)) :
                      InResult(cm, ret, ij[1], ij[2])
                          <=> cm.data[ij[1]][ij[2]] \in {Q(1, 1), Q(-1, 1)}
            /\ FGt(t, One) => ret = <<>>

C4_Witness ==
    /\ pairs_call.done
    /\ FEq(pairs_call.threshold, Zero)
    /\ NCols(pairs_call.corr) = 3
    /\ Len(pairs_call.ret) = 2
    /\ DefinedPairs(pairs_call.corr) = 2

----------------------------------------------------------------------------
(* Properties of calculate_portfolio_metrics, checked under SpecPortfolio *)

\* C5 as claimed: sharpe_ratio is portfolio_return / portfolio_volatility
\* whenever the volatility is not exactly zero, and the substituted 0 when
\* it is exactly zero.
C5_Original ==
    pf_call.done =>
        IF FEq(pf_call.ret.portfolio_volatility, Zero)
        THEN pf_call.ret.sharpe_ratio = Zero
        ELSE pf_call.ret.sharpe_ratio
                = FDiv(pf_call.ret.portfolio_return, pf_call.ret.portfolio_volatility)

\* C5 (amended): when the portfolio volatility is greater than zero the
\* Sharpe ratio times the volatility is the portfolio return; when it is zero
\* or NaN the Sharpe ratio is 0; the Sharpe ratio is never infinite.
C5_Sharpe ==
    pf_call.done =>
        LET r == pf_call.ret
        IN  /\ FGt(r.portfolio_volatility, Zero) =>
                  FEq(FMul(r.sharpe_ratio, r.portfolio_volatility), r.portfolio_return)
            /\ (FEq(r.portfolio_volatility, Zero) \/ IsNaN(r.portfolio_volatility)) =>
                  r.sharpe_ratio = Zero
            /\ \/ FGt(r.portfolio_volatility, Zero)
               \/ FEq(r.portfolio_volatility, Zero)
               \/ IsNaN(r.portfolio_volatility)
            /\ ~IsInf(r.sharpe_ratio)

C5_Witness ==
    /\ pf_call.done
    /\ FEq(pf_call.ret.portfolio_volatility, Zero)
    /\ ~FEq(pf_call.ret.portfolio_return, Zero)
    /\ IsFinite(pf_call.ret.portfolio_return)
    /\ pf_call.ret.sharpe_ratio = Zero

\* the weight vector with weight 1 on asset i and 0 on every other asset
IsUnitWeights(w, i) == \A j \in 1..Len(w) : w[j] = (IF j = i THEN One ELSE Zero)

\* C6 as claimed: with weight 1 on asset i and 0 elsewhere the portfolio
\* volatility is vol[i] and the portfolio return is returns[i], whatever the
\* entries of the other assets are.
C6_Original ==
    pf_call.done =>
        \A i \in 1..Len(pf_call.args.weights) :
            IsUnitWeights(pf_call.args.weights, i) =>
                /\ pf_call.ret.portfolio_volatility = pf_call.args.volatility[i]
                /\ pf_call.ret.portfolio_return = pf_call.args.returns[i]

\* no volatility and no correlation entry is NaN
NoNaNRisk(args) ==
    /\ \A j \in 1..Len(args.volatility) : ~IsNaN(args.volatility[j])
    /\ \A j, k \in 1..Len(args.volatility) : ~IsNaN(args.corr.data[j][k])

\* C6 (amended): with weight 1 on asset i and 0 elsewhere, the portfolio
\* volatility is vol[i] when no volatility and no correlation entry is NaN,
\* and NaN when one is (also one of a zero-weighted asset); the portfolio
\* return is returns[i] when no return is NaN, and NaN when one is.
C6_SingleAsset ==
    pf_call.done =>
        \A i \in 1..Len(pf_call.args.weights) :
            IsUnitWeights(pf_call.args.weights, i) =>
                /\ IF NoNaNRisk(pf_call.args)
                   THEN FEq(pf_call.ret.portfolio_volatility, pf_call.args.volatility[i])
                   ELSE IsNaN(pf_call.ret.portfolio_volatility)
                /\ IF \A j \in 1..Len(pf_call.args.returns) : ~IsNaN(pf_call.args.returns[j])
                   THEN FEq(pf_call.ret.portfolio_return, pf_call.args.returns[i])
                   ELSE IsNaN(pf_call.ret.portfolio_return)

C6_Witness ==
    /\ pf_call.done
    /\ Len(pf_call.args.weights) = 2
    /\ IsUnitWeights(pf_call.args.weights, 2)
    /\ NoNaNRisk(pf_call.args)
    /\ pf_call.args.volatility[1] # pf_call.args.volatility[2]
    /\ pf_call.args.returns[1] # pf_call.args.returns[2]
    /\ FEq(pf_call.ret.portfolio_volatility, pf_call.args.volatility[2])
    /\ FGt(pf_call.ret.portfolio_volatility, Zero)

\* C7: the weights are used as given: a call with every weight multiplied by
\* k > 0 returns k times the portfolio return and k times the portfolio
\* volatility of the call before it (NaN where that one is NaN), also when
\* the weights do not sum to 1.
C7_Scaling ==
    pf_prev # None =>
        /\ FGt(pf_call.scale, Zero)
        /\ pf_call.args.returns = pf_prev.args.returns
        /\ pf_call.args.volatility = pf_prev.args.volatility
        /\ pf_call.args.corr = pf_prev.args.corr
        /\ \A i \in 1..Len(pf_prev.args.weights) :
              pf_call.args.weights[i] = FMul(pf_call.scale, pf_prev.args.weights[i])
        /\ pf_call.ret.portfolio_return
              = FMul(pf_call.scale, pf_prev.ret.portfolio_return)
        /\ pf_call.ret.portfolio_volatility
              = FMul(pf_call.scale, pf_prev.ret.portfolio_volatility)

C7_Witness ==
    /\ pf_prev # None
    /\ Len(pf_prev.args.weights) = 2
    /\ ~FEq(SumSeq(pf_prev.args.weights), One)
    /\ ~FEq(SumSeq(pf_call.args.weights), One)
    /\ pf_prev.ret.portfolio_volatility.k = "root"
    /\ FGt(pf_call.ret.portfolio_volatility, pf_prev.ret.portfolio_volatility)
    /\ ~FEq(pf_prev.ret.portfolio_return, Zero)
    /\ IsFinite(pf_prev.ret.portfolio_return)

----------------------------------------------------------------------------
(* Properties of a run of main, checked under SpecApp *)

\* C2 as claimed: with fewer than 2 price rows no return table is produced
\* and the run is aborted with a reported error.
C2_Original ==
    (fetched # None /\ NRows(fetched) < 2) =>
        /\ returns_data = None
        /\ report = None
        /\ pc = "done" => st_errors # <<>>

\* C2 (amended): calculate_daily_returns does not fail on fewer than 2 price
\* rows, it returns a table without rows over the same columns. A run is
\* aborted with a reported error, and no analyzer is constructed, only when
\* the fetched table is empty; on a table of exactly 1 row the analyzer is
\* constructed and get_summary_report returns a report whose return table has
\* no rows and whose mean returns and volatilities are NaN, and no error is
\* reported for the lack of data.
C2_FewRows ==
    /\ \A t \in PriceTables(1) : DailyReturns(t) = Table(t.columns, <<>>, <<>>)
    /\ (fetched # None /\ NRows(fetched) = 0 /\ pc = "done") =>
          /\ st_errors = <<MsgNoData>>
          /\ price_data = None
          /\ returns_data = None
          /\ report = None
    /\ (fetched # None /\ NRows(fetched) = 1 /\ pc \in {"display", "portfolio", "done"}) =>
          /\ \A e \in 1..Len(st_errors) : st_errors[e] # MsgNoData
          /\ pc # "done" => (st_errors = <<>> /\ caught = None)
          /\ price_data = fetched
          /\ returns_data = Table(fetched.columns, <<>>, <<>>)
          /\ report # None
          /\ report.returns_data = returns_data
          /\ \A c \in 1..NCols(fetched) :
                /\ IsNaN(report.mean_returns.data[c])
                /\ IsNaN(report.volatility.data[c])

C2_Witness ==
    /\ pc = "done"
    /\ fetched # None
    /\ NRows(fetched) = 1
    /\ NCols(fetched) = 2
    /\ report # None
    /\ NRows(report.returns_data) = 0
    /\ st_errors = <<>>

\* values validate_tickers can be called with
TickerArgs ==
    LET items == {PyStr(<<>>), PyStr(<<"A">>), PyInt, PyNone}
        lists == UNION { [1..n -> items] : n \in 0..2 }
    IN  {PyNone, PyInt, PyStr(<<"A">>), PyTuple(<<PyStr(<<"A">>)>>)}
        \cup {PyList(l) : l \in lists}

\* C9: fetch_stock_data is called only with a ticker list validate_tickers
\* returned True for; when it returned False the run shows an error and
\* fetches and analyses nothing; validate_tickers returns False exactly for a
\* value that is not a list, an empty list, and a list with an entry that is
\* not a non-empty string.
C9_ValidateBeforeFetch ==
    /\ \A i \in 1..Len(fetch_calls) :
          \E j \in 1..Len(validate_calls) :
              validate_calls[j] = <<PyStrList(fetch_calls[i]), TRUE>>
    /\ (\E j \in 1..Len(validate_calls) : validate_calls[j][2] = FALSE) =>
          /\ pc = "done"
          /\ st_errors = <<MsgInvalidTickers>>
          /\ fetch_calls = <<>>
          /\ fetched = None
          /\ price_data = None
          /\ report = None
    /\ pc \in {"fetch", "check_empty", "analyze", "display"} =>
          /\ validate_calls = <<<<PyStrList(tickers), TRUE>>>>
          /\ tickers # <<>>
          /\ \A i \in 1..Len(tickers) : tickers[i] # <<>>
    /\ \A v \in TickerArgs :
          validate_tickers(v) = FALSE
              <=> \/ v.type # "list"
                  \/ v.items = <<>>
                  \/ \E i \in 1..Len(v.items) :
                        v.items[i].type # "str" \/ v.items[i].value = <<>>

C9_Witness ==
    /\ fetch_calls # <<>>
    /\ Len(fetch_calls[1]) = 2
    /\ validate_calls = <<<<PyStrList(fetch_calls[1]), TRUE>>>>
    /\ fetched # None

\* C10 as claimed: fetch_stock_data never returns an empty table.
C10_Original == fetched # None => ~IsEmpty(fetched)

\* C10 (amended): fetch_stock_data raises only when a download raises or a
\* frame has neither an 'Adj Close' column nor four columns; otherwise it
\* returns the table with one column per ticker and one row per date every
\* frame has a price for, which is empty when a ticker has no rows or no date
\* is common to all. main reports "No data retrieved" for an empty table and
\* the generic error for an exception; in both cases no analyzer is
\* constructed, so an analysed table is never empty.
C10_FetchOutcome ==
    /\ pc = "check_empty" =>
          /\ caught = None
          /\ Len(downloads) = Len(tickers)
          /\ \A i \in 1..Len(downloads) : ~IterationRaises(downloads[i])
          /\ fetched.columns = tickers
          /\ \A dt \in 1..MaxDates :
                (\E r \in 1..NRows(fetched) : fetched.index[r] = dt)
                    <=> \A i \in 1..Len(downloads) : HasDate(downloads[i], dt)
          /\ \A r \in 1..NRows(fetched) :
                /\ Len(fetched.data[r]) = Len(tickers)
                /\ \A c \in 1..Len(tickers) :
                      fetched.data[r][c] = PriceAt(downloads[c], fetched.index[r])
                /\ \A r2 \in 1..NRows(fetched) :
                      r < r2 => fetched.index[r] < fetched.index[r2]
          /\ (\E i \in 1..Len(downloads) : downloads[i].dates = <<>>) => IsEmpty(fetched)
    /\ (fetch_calls # <<>> /\ pc = "done" /\ fetched = None) =>
          /\ caught # None
          /\ st_errors = <<MsgErrorOccurred>>
          /\ price_data = None
          /\ report = None
          /\ downloads # <<>>
          /\ IterationRaises(downloads[Len(downloads)])
          /\ caught = LoopRaises(downloads)
    /\ (fetched # None /\ IsEmpty(fetched) /\ pc = "done") =>
          /\ st_errors = <<MsgNoData>>
          /\ caught = None
          /\ price_data = None
          /\ report = None
    /\ price_data # None => (price_data = fetched /\ ~IsEmpty(price_data))

C10_Witness ==
    /\ pc = "check_empty"
    /\ Len(tickers) = 2
    /\ IsEmpty(fetched)
    /\ \A i \in 1..Len(downloads) : downloads[i].dates # <<>>

----------------------------------------------------------------------------
(* Properties of calculate_risk_return_metrics, checked under SpecAnalyzer *)

\* position of the 'Sharpe Ratio' column in the risk-return table
SharpeColumn == CHOOSE c \in 1..Len(RiskReturnColumns) : RiskReturnColumns[c] = "Sharpe Ratio"

----------------------------------------------------------------------------
(* Properties of the portfolio section of main, checked under SpecApp *)

\* C12: whatever the slider values are (all zeros included), the weight list
\* main passes to calculate_portfolio_metrics has one entry per column of the
\* price table, in column order (entry i is slider i divided by the total of
\* the sliders, or 1/n when every slider is 0), every entry is non-negative,
\* and the entries sum to 1; the returns, volatilities and correlation matrix
\* passed with it have the same length and column order.
C12_Weights ==
    pf_call # None =>
        LET w == pf_call.args.weights
            sl == pf_call.sliders
            total == SumSeq([i \in 1..Len(sl) |-> Q(sl[i], 1)])
        IN  /\ Len(sl) = NCols(price_data)
            /\ Len(w) = NCols(price_data)
            /\ Len(pf_call.args.returns) = Len(w)
            /\ Len(pf_call.args.volatility) = Len(w)
            /\ NCols(pf_call.args.corr) = Len(w)
            /\ pf_call.args.corr.columns = price_data.columns
            /\ report.annualized_metrics.annualized_return.index = price_data.columns
            /\ \A i \in 1..Len(w) :
                  /\ FGe(w[i], Zero)
                  /\ IF FEq(total, Zero)
                     THEN FEq(FMul(w[i], Q(Len(w), 1)), One)
                     ELSE FEq(FMul(w[i], total), Q(sl[i], 1))
            /\ FEq(SumSeq(w), One)

C12_Witness ==
    /\ pf_call # None
    /\ pc = "done"
    /\ Len(pf_call.args.weights) = 2
    /\ \A i \in 1..Len(pf_call.sliders) : pf_call.sliders[i] = 0
    /\ FEq(pf_call.args.weights[1], Q(1, 2))

\* a download of the run's fetch has raised
DownloadRaised == \E i \in 1..Len(downloads) : downloads[i].exc # None

\* C13 (state part): when a download raises, the error main catches is the
\* error the download raised, main reports an error, the fetch was called
\* once, and no analyzer, report or portfolio metric exists.
C13_ErrorState ==
    DownloadRaised =>
        /\ pc = "done"
        /\ caught = downloads[Len(downloads)].exc
        /\ \A i \in 1..(Len(downloads) - 1) : downloads[i].exc = None
        /\ st_errors = <<MsgErrorOccurred>>
        /\ fetch_calls = <<tickers>>
        /\ fetched = None
        /\ price_data = None
        /\ returns_data = None
        /\ metrics = <<>>
        /\ report = None
        /\ pf_call = None

\* C13 (step part): after the error nothing more happens in the run: no
\* retry of the fetch and no later step.
C13_NoStepAfterError == [][~DownloadRaised]_vars

\* C13: an error raised by a download propagates unchanged out of
\* fetch_stock_data to main, which reports it; after it there is no retry, no
\* analyzer, no report and no portfolio metric in the run.
C13_ErrorPropagation == []C13_ErrorState /\ C13_NoStepAfterError

C13_Witness ==
    /\ pc = "done"
    /\ Len(tickers) = 2
    /\ Len(downloads) = 2
    /\ downloads[1].exc = None
    /\ downloads[1].dates # <<>>
    /\ downloads[2].exc # None
    /\ caught = downloads[2].exc
    /\ st_errors = <<MsgErrorOccurred>>

----------------------------------------------------------------------------
(* Properties of the analyzer's state, checked under SpecAnalyzer *)

\* the value an analyzer method returns on an analyzer over these prices when
\* no other method has run before it
FreshResult(op, prices) ==
    LET rets == DropNa(PctChange(prices))
    IN  CASE op = "calculate_daily_returns" -> rets
          [] op = "calculate_mean_return" -> ColMeans(rets)
          [] op = "calculate_volatility" -> ColStds(rets)
          [] op = "calculate_annualized_metrics" ->
                [annualized_return |-> ScaleSeries(ColMeans(rets), Q(252, 1)),
                 annualized_volatility |-> ScaleSeries(ColStds(rets), FSqrt(Q(252, 1)))]
          [] op = "calculate_correlation_matrix" -> CorrMatrix(rets)
          [] op = "calculate_cumulative_returns" -> CumProdMinusOne(rets)
          [] op = "calculate_risk_return_metrics" -> RiskReturnMetrics(rets)
          [] op = "get_summary_report" -> SummaryReport(rets)

\* C14 (state part): returns_data is None, with nothing stored and no method
\* called, or the returns derived from price_data; every entry of metrics is
\* the statistic of returns_data; the value the last method returned is the
\* value it returns on a fresh analyzer over the same prices.
C14_State ==
    /\ returns_data = None => (last_call = NoCall /\ metrics = <<>>)
    /\ returns_data # None =>
          /\ returns_data = DropNa(PctChange(price_data))
          /\ DOMAIN metrics \subseteq {"mean_return", "volatility", "correlation"}
          /\ "mean_return" \in DOMAIN metrics =>
                metrics["mean_return"] = ColMeans(returns_data)
          /\ "volatility" \in DOMAIN metrics =>
                metrics["volatility"] = ColStds(returns_data)
          /\ "correlation" \in DOMAIN metrics =>
                metrics["correlation"] = CorrMatrix(returns_data)
          /\ last_call.op # "none"
          /\ last_call.ret = FreshResult(last_call.op, price_data)

\* C14 (step part): no method modifies price_data.
C14_PricesKept == [][price_data' = price_data]_vars

\* C14: after any sequence of analyzer methods, returns_data is None or the
\* returns derived from price_data, price_data is never modified, the entries
\* of metrics are the statistics of returns_data, and each method returns the
\* same value whatever ran before it.
C14_AnalyzerState == []C14_State /\ C14_PricesKept

C14_Witness ==
    /\ last_call.op = "calculate_cumulative_returns"
    /\ DOMAIN metrics = {"mean_return", "volatility", "correlation"}
    /\ NRows(price_data) = MaxRows
    /\ NCols(price_data) = 2
    /\ NRows(returns_data) = MaxRows - 1
    /\ \E c \in 1..2 : FGt(metrics["volatility"].data[c], Zero)

====
